---- MODULE Spec2Model ----
(***************************************************************************)
(* Grover circuit builder of src/grovers_algorithm.py.                     *)
(*                                                                         *)
(* A circuit is a record [nq, nc, ops]: the number of qubits, the number   *)
(* of classical bits and the ordered sequence of operations.  A quantum    *)
(* state is a record [amp, hexp]: basis state i (qubit q is bit q of i)    *)
(* has the real amplitude amp[i] / sqrt(2)^hexp.  All gates the builder    *)
(* emits (H, X, Z, CZ, MCX) keep amplitudes in this form, so the           *)
(* statevector is computed exactly with integers.                          *)
(***************************************************************************)
EXTENDS Integers, Sequences, FiniteSets, TLC

VARIABLES fn, pc, mcx_empty, n_qubits, target_state, iter_given,
          num_iterations, num_solutions, qc, oracle, diffusion, rounds,
          optimal, err, psi_in, psi,
          viz_fail, output,
          heap, grid, initial_grid, corrected, grid_in, initial_in, passes,
          violations, valid, bitstring, decoded

\* the scripts' main functions: the visualization steps that fail, and the
\* messages printed
scriptVars == <<viz_fail, output>>

\* quantum_sudoku.py: heap maps a row object to its cells; grid,
\* initial_grid and corrected are lists of row objects; grid_in and
\* initial_in are the cell values of the arguments at the call
sudokuVars == <<heap, grid, initial_grid, corrected, grid_in, initial_in,
                passes, violations, valid, bitstring, decoded>>

extVars == <<scriptVars, sudokuVars>>

groverVars == <<mcx_empty, n_qubits, target_state, iter_given,
                num_iterations, num_solutions, qc, oracle, diffusion, rounds,
                optimal, psi_in, psi>>

vars == <<fn, pc, err, groverVars, extVars>>

----------------------------------------------------------------------------
(* Bounds of the model                                                     *)

MaxQubits == 3
MaxCalcQubits == 4
MaxIter == 2
MaxAmp == 1

----------------------------------------------------------------------------
(* Integer helpers                                                         *)

RECURSIVE Pow2(_)
Pow2(k) == IF k <= 0 THEN 1 ELSE 2 * Pow2(k - 1)

Bit(i, q) == (i \div Pow2(q)) % 2

Flip(i, q) == IF Bit(i, q) = 1 THEN i - Pow2(q) ELSE i + Pow2(q)

Abs(x) == IF x < 0 THEN -x ELSE x

RECURSIVE SumTo(_, _)
SumTo(f, k) == IF k < 0 THEN 0 ELSE f[k] + SumTo(f, k - 1)

----------------------------------------------------------------------------
(* Gates: QuantumCircuit.h / x / z / cz / mcx / measure                    *)

H(q) == [name |-> "h", ctrl |-> {}, tgt |-> q, clbits |-> {}]
X(q) == [name |-> "x", ctrl |-> {}, tgt |-> q, clbits |-> {}]
Z(q) == [name |-> "z", ctrl |-> {}, tgt |-> q, clbits |-> {}]
CZ(c, t) == [name |-> "cz", ctrl |-> {c}, tgt |-> t, clbits |-> {}]
MCX(cs, t) == [name |-> "mcx", ctrl |-> cs, tgt |-> t, clbits |-> {}]
Measure(q, c) == [name |-> "measure", ctrl |-> {}, tgt |-> q, clbits |-> {c}]

NoCircuit == [nq |-> 0, nc |-> 0, ops |-> <<>>]

\* for q in range(n): qc.h(q)
HLayer(n) == [k \in 1..n |-> H(k - 1)]

\* for qubit in range(n): qc.x(qubit)
XLayer(n) == [k \in 1..n |-> X(k - 1)]

----------------------------------------------------------------------------
(* Statevector semantics of the gates (the simulation provider)            *)

RECURSIVE Normalize(_)
Normalize(s) ==
    IF s.hexp >= 2 /\ \A i \in DOMAIN s.amp : s.amp[i] % 2 = 0
    THEN Normalize([amp |-> [i \in DOMAIN s.amp |-> s.amp[i] \div 2],
                    hexp |-> s.hexp - 2])
    ELSE s

ApplyGate(g, s) ==
    LET f == s.amp
        t == g.tgt
        on(i) == \A c \in g.ctrl : Bit(i, c) = 1
    IN  CASE g.name = "h" ->
               Normalize([amp |-> [i \in DOMAIN f |->
                                     IF Bit(i, t) = 1 THEN f[Flip(i, t)] - f[i]
                                                      ELSE f[i] + f[Flip(i, t)]],
                          hexp |-> s.hexp + 1])
          [] g.name = "x" ->
               [s EXCEPT !.amp = [i \in DOMAIN f |-> f[Flip(i, t)]]]
          [] g.name = "z" ->
               [s EXCEPT !.amp = [i \in DOMAIN f |->
                                     IF Bit(i, t) = 1 THEN -f[i] ELSE f[i]]]
          [] g.name = "cz" ->
               [s EXCEPT !.amp = [i \in DOMAIN f |->
                                     IF on(i) /\ Bit(i, t) = 1 THEN -f[i] ELSE f[i]]]
          [] g.name = "mcx" ->
               [s EXCEPT !.amp = [i \in DOMAIN f |->
                                     IF on(i) THEN f[Flip(i, t)] ELSE f[i]]]
          [] OTHER -> s

RECURSIVE RunFrom(_, _, _)
RunFrom(ops, k, s) ==
    IF k > Len(ops) THEN s
    ELSE LET s2 == ApplyGate(ops[k], s)
         IN  \* the comparison evaluates s2 before the next gate is applied
             IF s2.amp = s2.amp THEN RunFrom(ops, k + 1, s2) ELSE s2

\* statevector(circuit) started from the state s
Statevector(ops, s) == RunFrom(ops, 1, s)

ZeroState(n) == [amp |-> [i \in 0..(Pow2(n) - 1) |-> IF i = 0 THEN 1 ELSE 0],
                 hexp |-> 0]

Neg(s) == [s EXCEPT !.amp = [i \in DOMAIN s.amp |-> -s.amp[i]]]

UpToGlobalPhase(s, t) == s = t \/ s = Neg(t)

----------------------------------------------------------------------------
(* initialize_s                                                            *)

initialize_s(circ, n) == [circ EXCEPT !.ops = circ.ops \o HLayer(n)]

Uniform(n) == Statevector(HLayer(n), ZeroState(n))

----------------------------------------------------------------------------
(* create_oracle                                                           *)

IsBinary(t) == \A k \in 1..Len(t) : t[k] \in {"0", "1"}

\* for qubit, bit in enumerate(target_state): if bit == '0': x(qubit)
OracleXLayer(t) ==
    LET idx == SelectSeq([k \in 1..Len(t) |-> k], LAMBDA k : t[k] = "0")
    IN  [j \in 1..Len(idx) |-> X(idx[j] - 1)]

\* the second mcx left out
OraclePhaseFlip_NoUncompute(n) ==
    IF n = 2 THEN <<CZ(0, 1)>>
    ELSE <<MCX(0..(n - 2), n - 1), Z(n - 1)>>

\* range(n) in place of range(n-1) for the controls
OraclePhaseFlip_ControlsAll(n) ==
    IF n = 2 THEN <<CZ(0, 1)>>
    ELSE <<MCX(0..(n - 1), n - 1), Z(n - 1), MCX(0..(n - 1), n - 1)>>

OraclePhaseFlip(n) ==
    IF n = 2 THEN <<CZ(0, 1)>>
    ELSE <<MCX(0..(n - 2), n - 1), Z(n - 1), MCX(0..(n - 2), n - 1)>>

\* mcx over an empty control list (n = 1): what the circuit library does
\* with it is outside the source; mcx_empty holds its answer.
McxRaises(n) == n # 2 /\ n - 1 = 0 /\ mcx_empty = "raise"

create_oracle(t) ==
    LET n == Len(t)
    IN  IF McxRaises(n)
        THEN [err |-> "CircuitError", circ |-> NoCircuit]
        ELSE [err |-> "",
              circ |-> [nq |-> n, nc |-> 0,
                        ops |-> OracleXLayer(t) \o OraclePhaseFlip(n)
                                \o OracleXLayer(t)]]

----------------------------------------------------------------------------
(* create_diffusion_operator                                               *)

\* the Hadamards around the mcx left out
DiffusionPhaseFlip_NoSandwich(n) ==
    IF n = 2 THEN <<CZ(0, 1)>>
    ELSE <<MCX(0..(n - 2), n - 1)>>

DiffusionPhaseFlip(n) ==
    IF n = 2 THEN <<CZ(0, 1)>>
    ELSE <<H(n - 1), MCX(0..(n - 2), n - 1), H(n - 1)>>

\* the closing Hadamard layer left out
create_diffusion_operator_NoFinalH(n) ==
    IF McxRaises(n)
    THEN [err |-> "CircuitError", circ |-> NoCircuit]
    ELSE [err |-> "",
          circ |-> [nq |-> n, nc |-> 0,
                    ops |-> HLayer(n) \o XLayer(n) \o DiffusionPhaseFlip(n)
                            \o XLayer(n)]]

create_diffusion_operator(n) ==
    IF McxRaises(n)
    THEN [err |-> "CircuitError", circ |-> NoCircuit]
    ELSE [err |-> "",
          circ |-> [nq |-> n, nc |-> 0,
                    ops |-> HLayer(n) \o XLayer(n) \o DiffusionPhaseFlip(n)
                            \o XLayer(n) \o HLayer(n)]]

----------------------------------------------------------------------------
(* calculate_optimal_iterations                                            *)
(* Floating point is modelled in fixed point: N / num_solutions with six   *)
(* decimals, its square root with three, pi with four.                     *)

RatioScale == 1000000
PiE4 == 31416
OptimalScale == 10000000
SqrtCeiling == 46340

RECURSIVE SqrtSearch(_, _, _)
SqrtSearch(x, lo, hi) ==
    IF lo >= hi THEN lo
    ELSE LET mid == (lo + hi + 1) \div 2
         IN  IF mid * mid <= x THEN SqrtSearch(x, mid, hi)
                               ELSE SqrtSearch(x, lo, mid - 1)

\* math.sqrt of a value scaled by RatioScale, scaled by its square root
MathSqrt(x) == SqrtSearch(x, 0, SqrtCeiling)

\* round() in place of int()
IntTrunc_Round(num, den) == (2 * num + den) \div (2 * den)

\* int(): truncation toward zero
IntTrunc(num, den) == IF num >= 0 THEN num \div den ELSE -((-num) \div den)

calculate_optimal_iterations(n, m) ==
    LET N == Pow2(n)
    IN  IF m = 0 THEN [err |-> "ZeroDivisionError", val |-> 0]
        ELSE IF m < 0 THEN [err |-> "ValueError", val |-> 0]
        ELSE LET ratio == (N * RatioScale) \div m
                 opt == (PiE4 * MathSqrt(ratio)) \div 4
             IN  [err |-> "", val |-> IntTrunc(opt, OptimalScale)]

----------------------------------------------------------------------------
(* QuantumCircuit.compose and QuantumCircuit.measure                       *)

compose(circ, other) ==
    IF other.nq > circ.nq \/ other.nc > circ.nc
    THEN [err |-> "CircuitError", circ |-> circ]
    ELSE [err |-> "", circ |-> [circ EXCEPT !.ops = circ.ops \o other.ops]]

\* qc.measure(range(n), range(n))
measure_all(circ, n) ==
    [circ EXCEPT !.ops = circ.ops \o [k \in 1..n |-> Measure(k - 1, k - 1)]]

DefaultIterations == 1
DefaultSolutions == 1

----------------------------------------------------------------------------
(* Inputs                                                                  *)

Chars == {"0", "1", "a"}
Targets(n) == [1..n -> Chars]
BinaryTargets(n) == [1..n -> {"0", "1"}]
AllTargets == UNION {Targets(n) : n \in 1..MaxQubits}

Amps == (-MaxAmp)..MaxAmp

\* amplitude vectors u * e_j + w * (1,...,1), the ramp i |-> i, and the
\* uniform superposition built by initialize_s
InputStates(n) ==
    LET D == 0..(Pow2(n) - 1)
    IN  {[amp |-> [i \in D |-> (IF i = j THEN u ELSE 0) + w], hexp |-> 0] :
            j \in D, u \in Amps, w \in Amps}
        \cup {[amp |-> [i \in D |-> i], hexp |-> 0], Uniform(n)}

NoState == ZeroState(0)

Fns == {"create_oracle", "create_diffusion_operator",
        "calculate_optimal_iterations", "create_grovers_circuit",
        "run_grovers_algorithm"}

Mains == {"grovers_algorithm.main", "advanced_quantum.main",
          "hello_quantum.main"}

SudokuFns == {"encode_sudoku", "classical_correction", "verify_sudoku",
              "count_violations"}

----------------------------------------------------------------------------
(* quantum_sudoku.py: grids                                                *)
(* A grid value is a sequence of 4 rows of 4 cells; row i and column j of  *)
(* the source are row i + 1 and column j + 1 here.                         *)

MaxChanged == 1
MaxPasses == 10

\* expected_solution of main
Solved == <<<<1, 3, 2, 4>>, <<2, 4, 1, 3>>, <<4, 1, 3, 2>>, <<3, 2, 4, 1>>>>

\* a Latin square whose boxes repeat values
Cyclic == <<<<1, 2, 3, 4>>, <<2, 3, 4, 1>>, <<3, 4, 1, 2>>, <<4, 1, 2, 3>>>>

\* initial_grid of main
MainInitial == <<<<1, 0, 0, 4>>, <<0, 0, 1, 0>>, <<4, 0, 0, 0>>, <<0, 2, 0, 0>>>>

ZeroGrid == [i \in 1..4 |-> [j \in 1..4 |-> 0]]

Cells == (1..4) \X (1..4)

\* the grids that differ from a base grid in at most MaxChanged cells
FullGrids ==
    {[i \in 1..4 |-> [j \in 1..4 |->
          IF <<i, j>> \in DOMAIN ch THEN ch[<<i, j>>] ELSE base[i][j]]] :
        base \in {Solved, Cyclic},
        ch \in UNION {[cs -> 1..4] :
                        cs \in {c \in SUBSET Cells : Cardinality(c) <= MaxChanged}}}

Deref(h, ref) == [i \in 1..Len(ref) |-> h[ref[i]]]

NoRow == <<>>

\* the row objects of the arguments grid (1..4) and initial_grid (5..8);
\* 9..12 are not allocated yet
HeapOf(g, init) ==
    [id \in 1..12 |-> IF id <= 4 THEN g[id]
                      ELSE IF id <= 8 THEN init[id - 4]
                      ELSE NoRow]

----------------------------------------------------------------------------
(* encode_sudoku and decode_measurement                                    *)

\* the gates encode_sudoku emits for the cell with index k (0..15)
EncodeCell(v, k) ==
    LET q == k * 2
    IN  IF v = 0 THEN <<H(q), H(q + 1)>>
        ELSE (IF Bit(v, 1) = 1 THEN <<X(q + 1)>> ELSE <<>>)
             \o (IF Bit(v, 0) = 1 THEN <<X(q)>> ELSE <<>>)

RECURSIVE EncodeFrom(_, _)
EncodeFrom(g, k) ==
    IF k > 15 THEN <<>>
    ELSE EncodeCell(g[(k \div 4) + 1][(k % 4) + 1], k) \o EncodeFrom(g, k + 1)

encode_sudoku(g) == [nq |-> 32, nc |-> 32, ops |-> EncodeFrom(g, 0)]

\* the value of qubit q in the basis state a circuit of X gates prepares
BasisBit(ops, q) ==
    Cardinality({p \in 1..Len(ops) : ops[p].name = "x" /\ ops[p].tgt = q}) % 2

\* the measured string: classical bit q, at position 31 - q of the string
MeasurementString(ops) ==
    [p \in 1..32 |-> IF BasisBit(ops, 32 - p) = 1 THEN "1" ELSE "0"]

\* int(bitstring[k]) for a position k of the source
IntAt(bs, k) == IF bs[k + 1] = "1" THEN 1 ELSE 0

decode_measurement(bs) ==
    [r \in 1..4 |-> [c \in 1..4 |->
        LET i == (r - 1) * 4 + (c - 1)
            qubit_index == i * 2
            bit1 == IntAt(bs, 31 - qubit_index)
            bit2 == IntAt(bs, 31 - (qubit_index + 1))
        IN  bit1 * 2 + bit2 + 1]]

----------------------------------------------------------------------------
(* verify_sudoku and count_violations                                      *)

Count(seq, v) == Cardinality({k \in 1..Len(seq) : seq[k] = v})

Column(g, j) == [i \in 1..4 |-> g[i][j]]

Box(g, box_row, box_col) ==
    <<g[box_row * 2 + 1][box_col * 2 + 1], g[box_row * 2 + 1][box_col * 2 + 2],
      g[box_row * 2 + 2][box_col * 2 + 1], g[box_row * 2 + 2][box_col * 2 + 2]>>

RowUnits(g) == [i \in 1..4 |-> g[i]]
ColumnUnits(g) == [j \in 1..4 |-> Column(g, j)]
BoxUnits(g) == <<Box(g, 0, 0), Box(g, 0, 1), Box(g, 1, 0), Box(g, 1, 1)>>

RECURSIVE Insert(_, _)
Insert(x, s) ==
    IF s = <<>> THEN <<x>>
    ELSE IF x <= Head(s) THEN <<x>> \o s
    ELSE <<Head(s)>> \o Insert(x, Tail(s))

RECURSIVE sorted(_)
sorted(s) == IF s = <<>> THEN <<>> ELSE Insert(Head(s), sorted(Tail(s)))

UnitsValid(units) == \A k \in 1..Len(units) : sorted(units[k]) = <<1, 2, 3, 4>>

\* the check of the 2x2 boxes left out
verify_sudoku_NoBoxes(g) ==
    UnitsValid(RowUnits(g)) /\ UnitsValid(ColumnUnits(g))

verify_sudoku(g) ==
    UnitsValid(RowUnits(g)) /\ UnitsValid(ColumnUnits(g))
    /\ UnitsValid(BoxUnits(g))

RECURSIVE SumSeq(_, _)
SumSeq(s, k) == IF k < 1 THEN 0 ELSE s[k] + SumSeq(s, k - 1)

\* for value in range(1, 5): if unit.count(value) > 1: += count - 1
UnitViolations(unit) ==
    SumSeq([v \in 1..4 |-> IF Count(unit, v) > 1 THEN Count(unit, v) - 1 ELSE 0],
           4)

UnitsViolations(units) ==
    SumSeq([k \in 1..Len(units) |-> UnitViolations(units[k])], Len(units))

count_violations(g) ==
    UnitsViolations(RowUnits(g)) + UnitsViolations(ColumnUnits(g))
    + UnitsViolations(BoxUnits(g))

----------------------------------------------------------------------------
(* classical_correction                                                    *)

\* corrected = grid[:], the rows shared with grid
CopyRows_Shared(h, ref) == [heap |-> h, ref |-> ref]

\* corrected = [row[:] for row in grid]: four new row objects
CopyRows(h, ref) ==
    [heap |-> [id \in DOMAIN h |-> IF id >= 9 THEN h[ref[id - 8]] ELSE h[id]],
     ref |-> <<9, 10, 11, 12>>]

Missing(unit) == {v \in 1..4 : Count(unit, v) = 0}

Min(S) == CHOOSE x \in S : \A y \in S : x <= y

\* the loops visit (outer, value, inner) in this order
LoopKey(t) == t[1] * 16 + t[2] * 4 + t[3]

FirstInLoop(S) == CHOOSE t \in S : \A u \in S : LoopKey(t) <= LoopKey(u)

\* rows: (i, value, j) with value repeated in row i, cell (i, j) holding it
\* and not fixed, and a value missing in the row
RowCandidates(c, init) ==
    {t \in (1..4) \X (1..4) \X (1..4) :
        /\ Count(c[t[1]], t[2]) > 1
        /\ c[t[1]][t[3]] = t[2]
        /\ init[t[1]][t[3]] = 0
        /\ Missing(c[t[1]]) # {}}

\* columns: (j, value, i) likewise
ColumnCandidates(c, init) ==
    {t \in (1..4) \X (1..4) \X (1..4) :
        /\ Count(Column(c, t[1]), t[2]) > 1
        /\ c[t[3]][t[1]] = t[2]
        /\ init[t[3]][t[1]] = 0
        /\ Missing(Column(c, t[1])) # {}}

\* one iteration of the for-loop: the cell written and its new value, or
\* improved = FALSE
CorrectionStep(c, init) ==
    IF RowCandidates(c, init) # {}
    THEN LET t == FirstInLoop(RowCandidates(c, init))
         IN  [improved |-> TRUE, i |-> t[1], j |-> t[3],
              new_value |-> Min(Missing(c[t[1]]))]
    ELSE IF ColumnCandidates(c, init) # {}
    THEN LET t == FirstInLoop(ColumnCandidates(c, init))
         IN  [improved |-> TRUE, i |-> t[3], j |-> t[1],
              new_value |-> Min(Missing(Column(c, t[1])))]
    ELSE [improved |-> FALSE, i |-> 0, j |-> 0, new_value |-> 0]

----------------------------------------------------------------------------
(* Visualization steps of the scripts                                      *)

VizSteps == {"histogram", "state_city", "bloch"}

\* advanced_quantum.visualize_results: the histogram is drawn outside any
\* try; the state-city and Bloch plots each in their own try/except
advanced_visualize_results(fails) ==
    IF "histogram" \in fails
    THEN [raised |-> TRUE, out |-> <<>>]
    ELSE [raised |-> FALSE,
          out |-> <<"histogram saved">>
                  \o (IF "state_city" \in fails
                      THEN <<"warning: no state visualization">>
                      ELSE <<"state visualization saved">>)
                  \o (IF "bloch" \in fails
                      THEN <<"warning: no bloch multivector">>
                      ELSE <<"bloch multivector saved">>)]

\* grovers_algorithm.visualize_results: no try/except
grover_visualize_results(fails) ==
    IF "histogram" \in fails
    THEN [raised |-> TRUE, out |-> <<"circuit printed">>]
    ELSE [raised |-> FALSE, out |-> <<"circuit printed", "histogram saved">>]

\* hello_quantum.visualize_bloch_sphere: no try/except
visualize_bloch_sphere(fails) ==
    IF "bloch" \in fails
    THEN [raised |-> TRUE, out |-> <<>>]
    ELSE [raised |-> FALSE, out |-> <<"bloch sphere saved">>]

----------------------------------------------------------------------------
(* Initial states: one call of one entry point with its arguments          *)

InitCommon ==
    /\ mcx_empty \in {"raise", "x"}
    /\ qc = NoCircuit
    /\ oracle = NoCircuit
    /\ diffusion = NoCircuit
    /\ rounds = 0
    /\ optimal = 0
    /\ err = ""

InitOracle ==
    /\ fn = "create_oracle"
    /\ pc = "call"
    /\ target_state \in AllTargets
    /\ n_qubits = Len(target_state)
    /\ iter_given = FALSE
    /\ num_iterations = DefaultIterations
    /\ num_solutions = DefaultSolutions
    /\ psi_in \in InputStates(Len(target_state))
    /\ psi = psi_in

InitDiffusion ==
    /\ fn = "create_diffusion_operator"
    /\ pc = "call"
    /\ n_qubits \in 1..MaxQubits
    /\ target_state = <<>>
    /\ iter_given = FALSE
    /\ num_iterations = DefaultIterations
    /\ num_solutions = DefaultSolutions
    /\ psi_in \in InputStates(n_qubits)
    /\ psi = psi_in

InitCalc ==
    /\ fn = "calculate_optimal_iterations"
    /\ pc = "call"
    /\ n_qubits \in 1..MaxCalcQubits
    /\ target_state = <<>>
    /\ iter_given = FALSE
    /\ num_iterations = DefaultIterations
    /\ num_solutions \in (-1)..(Pow2(n_qubits) + 1)
    /\ psi_in = NoState
    /\ psi = NoState

InitGrover ==
    /\ fn = "create_grovers_circuit"
    /\ pc = "g_start"
    /\ n_qubits \in 1..MaxQubits
    /\ target_state \in AllTargets
    /\ iter_given \in BOOLEAN
    /\ num_iterations \in IF iter_given THEN (-1)..MaxIter
                                        ELSE {DefaultIterations}
    /\ num_solutions = DefaultSolutions
    /\ psi_in = NoState
    /\ psi = NoState

InitRun ==
    /\ fn = "run_grovers_algorithm"
    /\ pc = "r_start"
    /\ n_qubits \in 1..MaxQubits
    /\ target_state \in BinaryTargets(n_qubits)
    /\ iter_given = TRUE
    /\ num_iterations = 0
    /\ num_solutions = DefaultSolutions
    /\ psi_in = ZeroState(n_qubits)
    /\ psi = psi_in

\* no script and no Sudoku function is running
InitNoExt ==
    /\ viz_fail = {}
    /\ output = <<>>
    /\ heap = HeapOf(ZeroGrid, ZeroGrid)
    /\ grid = <<>>
    /\ initial_grid = <<>>
    /\ corrected = <<>>
    /\ grid_in = ZeroGrid
    /\ initial_in = ZeroGrid
    /\ passes = 0
    /\ violations = 0
    /\ valid = FALSE
    /\ bitstring = <<>>
    /\ decoded = <<>>

\* no function of grovers_algorithm.py is running
InitNoGrover ==
    /\ mcx_empty = "x"
    /\ n_qubits = 0
    /\ target_state = <<>>
    /\ iter_given = FALSE
    /\ num_iterations = DefaultIterations
    /\ num_solutions = DefaultSolutions
    /\ psi_in = NoState
    /\ psi = NoState

\* a script starts; the plotting calls that will fail are the environment's
InitMain ==
    /\ fn \in Mains
    /\ pc = "m_start"
    /\ viz_fail \in SUBSET VizSteps
    /\ output = <<>>
    /\ heap = HeapOf(ZeroGrid, ZeroGrid)
    /\ grid = <<>>
    /\ initial_grid = <<>>
    /\ corrected = <<>>
    /\ grid_in = ZeroGrid
    /\ initial_in = ZeroGrid
    /\ passes = 0
    /\ violations = 0
    /\ valid = FALSE
    /\ bitstring = <<>>
    /\ decoded = <<>>

\* a call f(grid) or f(grid, initial_grid) of quantum_sudoku.py
InitSudokuCall(f, inits) ==
    /\ fn = f
    /\ pc = "call"
    /\ viz_fail = {}
    /\ output = <<>>
    /\ grid_in \in FullGrids
    /\ initial_in \in inits \cup (IF inits = {} THEN {ZeroGrid} ELSE {grid_in})
    /\ heap = HeapOf(grid_in, initial_in)
    /\ grid = <<1, 2, 3, 4>>
    /\ initial_grid = <<5, 6, 7, 8>>
    /\ corrected = <<>>
    /\ passes = 0
    /\ violations = 0
    /\ valid = FALSE
    /\ bitstring = <<>>
    /\ decoded = <<>>

InitEncode == InitSudokuCall("encode_sudoku", {})

InitCorrection == InitSudokuCall("classical_correction", {ZeroGrid, MainInitial})

InitVerify == InitSudokuCall("verify_sudoku", {})

InitCount == InitSudokuCall("count_violations", {})

Init ==
    /\ InitCommon
    /\ \/ /\ InitNoExt
          /\ \/ InitOracle
             \/ InitDiffusion
             \/ InitCalc
             \/ InitGrover
             \/ InitRun
       \/ /\ InitNoGrover
          /\ \/ InitMain
             \/ InitEncode
             \/ InitCorrection
             \/ InitVerify
             \/ InitCount

----------------------------------------------------------------------------
(* create_oracle(target_state) and the statevector of its circuit          *)

OracleCall ==
    /\ fn = "create_oracle"
    /\ pc = "call"
    /\ LET r == create_oracle(target_state)
       IN  /\ oracle' = r.circ
           /\ err' = r.err
           /\ pc' = IF r.err = "" THEN "returned" ELSE "raised"
    /\ UNCHANGED <<fn, mcx_empty, n_qubits, target_state, iter_given,
                   num_iterations, num_solutions, qc, diffusion, rounds,
                   optimal, psi_in, psi>>
    /\ UNCHANGED extVars

OracleApply ==
    /\ fn = "create_oracle"
    /\ pc = "returned"
    /\ psi' = Statevector(oracle.ops, psi_in)
    /\ pc' = "applied"
    /\ UNCHANGED <<fn, mcx_empty, n_qubits, target_state, iter_given,
                   num_iterations, num_solutions, qc, oracle, diffusion,
                   rounds, optimal, err, psi_in>>
    /\ UNCHANGED extVars

\* the oracle composed with itself
OracleApplyAgain ==
    /\ fn = "create_oracle"
    /\ pc = "applied"
    /\ psi' = Statevector(oracle.ops, psi)
    /\ pc' = "applied2"
    /\ UNCHANGED <<fn, mcx_empty, n_qubits, target_state, iter_given,
                   num_iterations, num_solutions, qc, oracle, diffusion,
                   rounds, optimal, err, psi_in>>
    /\ UNCHANGED extVars

----------------------------------------------------------------------------
(* create_diffusion_operator(n_qubits) and the statevector of its circuit  *)

DiffusionCall ==
    /\ fn = "create_diffusion_operator"
    /\ pc = "call"
    /\ LET r == create_diffusion_operator(n_qubits)
       IN  /\ diffusion' = r.circ
           /\ err' = r.err
           /\ pc' = IF r.err = "" THEN "returned" ELSE "raised"
    /\ UNCHANGED <<fn, mcx_empty, n_qubits, target_state, iter_given,
                   num_iterations, num_solutions, qc, oracle, rounds,
                   optimal, psi_in, psi>>
    /\ UNCHANGED extVars

DiffusionApply ==
    /\ fn = "create_diffusion_operator"
    /\ pc = "returned"
    /\ psi' = Statevector(diffusion.ops, psi_in)
    /\ pc' = "applied"
    /\ UNCHANGED <<fn, mcx_empty, n_qubits, target_state, iter_given,
                   num_iterations, num_solutions, qc, oracle, diffusion,
                   rounds, optimal, err, psi_in>>
    /\ UNCHANGED extVars

\* the diffusion operator composed with itself
DiffusionApplyAgain ==
    /\ fn = "create_diffusion_operator"
    /\ pc = "applied"
    /\ psi' = Statevector(diffusion.ops, psi)
    /\ pc' = "applied2"
    /\ UNCHANGED <<fn, mcx_empty, n_qubits, target_state, iter_given,
                   num_iterations, num_solutions, qc, oracle, diffusion,
                   rounds, optimal, err, psi_in>>
    /\ UNCHANGED extVars

----------------------------------------------------------------------------
(* calculate_optimal_iterations(n_qubits, num_solutions)                   *)

CalcCall ==
    /\ fn = "calculate_optimal_iterations"
    /\ pc = "call"
    /\ LET r == calculate_optimal_iterations(n_qubits, num_solutions)
       IN  /\ optimal' = r.val
           /\ err' = r.err
           /\ pc' = IF r.err = "" THEN "returned" ELSE "raised"
    /\ UNCHANGED <<fn, mcx_empty, n_qubits, target_state, iter_given,
                   num_iterations, num_solutions, qc, oracle, diffusion,
                   rounds, psi_in, psi>>
    /\ UNCHANGED extVars

----------------------------------------------------------------------------
(* create_grovers_circuit(n_qubits, target_state, num_iterations)          *)

InGrover == fn \in {"create_grovers_circuit", "run_grovers_algorithm"}

\* qc = QuantumCircuit(n_qubits, n_qubits); qc = initialize_s(qc, range(n_qubits))
GroverInitS ==
    /\ InGrover
    /\ pc = "g_start"
    /\ qc' = initialize_s([nq |-> n_qubits, nc |-> n_qubits, ops |-> <<>>],
                          n_qubits)
    /\ pc' = "g_oracle"
    /\ UNCHANGED <<fn, mcx_empty, n_qubits, target_state, iter_given,
                   num_iterations, num_solutions, oracle, diffusion, rounds,
                   optimal, err, psi_in, psi>>
    /\ UNCHANGED extVars

\* oracle = create_oracle(target_state)
GroverMakeOracle ==
    /\ InGrover
    /\ pc = "g_oracle"
    /\ LET r == create_oracle(target_state)
       IN  /\ oracle' = r.circ
           /\ err' = r.err
           /\ pc' = IF r.err = "" THEN "g_diffusion" ELSE "raised"
    /\ UNCHANGED <<fn, mcx_empty, n_qubits, target_state, iter_given,
                   num_iterations, num_solutions, qc, diffusion, rounds,
                   optimal, psi_in, psi>>
    /\ UNCHANGED extVars

\* diffusion = create_diffusion_operator(n_qubits)
GroverMakeDiffusion ==
    /\ InGrover
    /\ pc = "g_diffusion"
    /\ LET r == create_diffusion_operator(n_qubits)
       IN  /\ diffusion' = r.circ
           /\ err' = r.err
           /\ pc' = IF r.err = "" THEN "g_loop" ELSE "raised"
    /\ UNCHANGED <<fn, mcx_empty, n_qubits, target_state, iter_given,
                   num_iterations, num_solutions, qc, oracle, rounds,
                   optimal, psi_in, psi>>
    /\ UNCHANGED extVars

\* for _ in range(num_iterations): qc = qc.compose(oracle)
GroverComposeOracle ==
    /\ InGrover
    /\ pc = "g_loop"
    /\ rounds < num_iterations
    /\ LET r == compose(qc, oracle)
       IN  /\ qc' = r.circ
           /\ err' = r.err
           /\ pc' = IF r.err = "" THEN "g_loop_diffusion" ELSE "raised"
    /\ UNCHANGED <<fn, mcx_empty, n_qubits, target_state, iter_given,
                   num_iterations, num_solutions, oracle, diffusion, rounds,
                   optimal, psi_in, psi>>
    /\ UNCHANGED extVars

\* qc.compose(diffusion) with its result discarded
GroverComposeDiffusion_Discarded ==
    /\ InGrover
    /\ pc = "g_loop_diffusion"
    /\ pc' = "g_loop"
    /\ rounds' = rounds + 1
    /\ UNCHANGED <<fn, mcx_empty, n_qubits, target_state, iter_given,
                   num_iterations, num_solutions, qc, oracle, diffusion,
                   optimal, err, psi_in, psi>>
    /\ UNCHANGED extVars

\* qc = qc.compose(diffusion), end of one round
GroverComposeDiffusion ==
    /\ InGrover
    /\ pc = "g_loop_diffusion"
    /\ LET r == compose(qc, diffusion)
       IN  /\ qc' = r.circ
           /\ err' = r.err
           /\ pc' = IF r.err = "" THEN "g_loop" ELSE "raised"
    /\ rounds' = rounds + 1
    /\ UNCHANGED <<fn, mcx_empty, n_qubits, target_state, iter_given,
                   num_iterations, num_solutions, oracle, diffusion,
                   optimal, psi_in, psi>>
    /\ UNCHANGED extVars

\* qc.measure(range(n_qubits), range(n_qubits)); return qc
GroverMeasure ==
    /\ InGrover
    /\ pc = "g_loop"
    /\ rounds >= num_iterations
    /\ qc' = measure_all(qc, n_qubits)
    /\ pc' = IF fn = "run_grovers_algorithm" THEN "r_simulate" ELSE "returned"
    /\ UNCHANGED <<fn, mcx_empty, n_qubits, target_state, iter_given,
                   num_iterations, num_solutions, oracle, diffusion, rounds,
                   optimal, err, psi_in, psi>>
    /\ UNCHANGED extVars

----------------------------------------------------------------------------
(* run_grovers_algorithm(n_qubits, target_state)                           *)

\* optimal_iterations = calculate_optimal_iterations(n_qubits), handed to
\* create_grovers_circuit as num_iterations
RunCalcOptimal ==
    /\ fn = "run_grovers_algorithm"
    /\ pc = "r_start"
    /\ LET r == calculate_optimal_iterations(n_qubits, DefaultSolutions)
       IN  /\ optimal' = r.val
           /\ num_iterations' = r.val
           /\ err' = r.err
           /\ pc' = IF r.err = "" THEN "g_start" ELSE "raised"
    /\ UNCHANGED <<fn, mcx_empty, n_qubits, target_state, iter_given,
                   num_solutions, qc, oracle, diffusion, rounds, psi_in, psi>>
    /\ UNCHANGED extVars

\* simulator.run(...): the state the measurements sample from
RunSimulate ==
    /\ fn = "run_grovers_algorithm"
    /\ pc = "r_simulate"
    /\ psi' = Statevector(qc.ops, psi_in)
    /\ pc' = "returned"
    /\ UNCHANGED <<fn, mcx_empty, n_qubits, target_state, iter_given,
                   num_iterations, num_solutions, qc, oracle, diffusion,
                   rounds, optimal, err, psi_in>>
    /\ UNCHANGED extVars

----------------------------------------------------------------------------

----------------------------------------------------------------------------
(* The scripts' main functions                                             *)

scriptFrame == <<fn, groverVars, sudokuVars, viz_fail>>

\* grovers_algorithm.main: run_grovers_algorithm returned
GroverMainRun ==
    /\ fn = "grovers_algorithm.main"
    /\ pc = "m_start"
    /\ output' = output \o <<"simulated">>
    /\ pc' = "m_visualize"
    /\ UNCHANGED <<err, scriptFrame>>

\* visualize_results(circuit, counts): its exception leaves main
GroverMainVisualize ==
    /\ fn = "grovers_algorithm.main"
    /\ pc = "m_visualize"
    /\ LET r == grover_visualize_results(viz_fail)
       IN  /\ output' = output \o r.out
           /\ pc' = IF r.raised THEN "raised" ELSE "m_explain"
           /\ err' = IF r.raised THEN "Exception" ELSE err
    /\ UNCHANGED scriptFrame

GroverMainFinish ==
    /\ fn = "grovers_algorithm.main"
    /\ pc = "m_explain"
    /\ output' = output \o <<"explained", "completed">>
    /\ pc' = "returned"
    /\ UNCHANGED <<err, scriptFrame>>

\* advanced_quantum.main: run_simulation returned
AdvMainRun ==
    /\ fn = "advanced_quantum.main"
    /\ pc = "m_start"
    /\ output' = output \o <<"simulated">>
    /\ pc' = "m_visualize"
    /\ UNCHANGED <<err, scriptFrame>>

\* the try block up to visualize_results, and the except clause of main
AdvMainVisualize ==
    /\ fn = "advanced_quantum.main"
    /\ pc = "m_visualize"
    /\ LET r == advanced_visualize_results(viz_fail)
       IN  IF r.raised
           THEN /\ output' = output \o <<"statevector", "error during execution">>
                /\ pc' = "returned"
           ELSE /\ output' = output \o <<"statevector">> \o r.out
                /\ pc' = "m_explain"
    /\ UNCHANGED <<err, scriptFrame>>

AdvMainFinish ==
    /\ fn = "advanced_quantum.main"
    /\ pc = "m_explain"
    /\ output' = output \o <<"explained", "completed">>
    /\ pc' = "returned"
    /\ UNCHANGED <<err, scriptFrame>>

\* hello_quantum.main: run_simulation returned
HelloMainRun ==
    /\ fn = "hello_quantum.main"
    /\ pc = "m_start"
    /\ output' = output \o <<"simulated">>
    /\ pc' = "m_visualize"
    /\ UNCHANGED <<err, scriptFrame>>

\* the try block and the except clause of main
HelloMainVisualize ==
    /\ fn = "hello_quantum.main"
    /\ pc = "m_visualize"
    /\ LET r == visualize_bloch_sphere(viz_fail)
       IN  output' = output \o <<"statevector">> \o r.out
                     \o (IF r.raised
                         THEN <<"warning: visualization not available">>
                         ELSE <<>>)
                     \o <<"completed">>
    /\ pc' = "returned"
    /\ UNCHANGED <<err, scriptFrame>>

----------------------------------------------------------------------------
(* quantum_sudoku.py                                                       *)

sudokuFrame == <<fn, err, mcx_empty, n_qubits, target_state, iter_given,
                 num_iterations, num_solutions, oracle, diffusion, rounds,
                 optimal, psi_in, psi, scriptVars, grid, initial_grid,
                 grid_in, initial_in>>

\* qc = encode_sudoku(grid)
EncodeCall ==
    /\ fn = "encode_sudoku"
    /\ pc = "call"
    /\ qc' = encode_sudoku(Deref(heap, grid))
    /\ pc' = "encoded"
    /\ UNCHANGED <<sudokuFrame, heap, corrected, passes, violations, valid,
                   bitstring, decoded>>

\* qc.measure(range(32), range(32)) on the basis state
MeasureEncoded ==
    /\ fn = "encode_sudoku"
    /\ pc = "encoded"
    /\ bitstring' = MeasurementString(qc.ops)
    /\ pc' = "measured"
    /\ UNCHANGED <<sudokuFrame, qc, heap, corrected, passes, violations, valid,
                   decoded>>

\* decode_measurement(bitstring)
DecodeCall ==
    /\ fn = "encode_sudoku"
    /\ pc = "measured"
    /\ decoded' = decode_measurement(bitstring)
    /\ pc' = "returned"
    /\ UNCHANGED <<sudokuFrame, qc, heap, corrected, passes, violations, valid,
                   bitstring>>

\* corrected = [row[:] for row in grid]
CorrectionCopy ==
    /\ fn = "classical_correction"
    /\ pc = "call"
    /\ LET c == CopyRows(heap, grid)
       IN  /\ heap' = c.heap
           /\ corrected' = c.ref
    /\ pc' = "loop"
    /\ UNCHANGED <<sudokuFrame, qc, passes, violations, valid, bitstring,
                   decoded>>

\* one iteration of for _ in range(10)
CorrectionPass ==
    /\ fn = "classical_correction"
    /\ pc = "loop"
    /\ LET step == CorrectionStep(Deref(heap, corrected),
                                  Deref(heap, initial_grid))
       IN  IF step.improved
           THEN /\ heap' = [heap EXCEPT ![corrected[step.i]][step.j] =
                                             step.new_value]
                /\ passes' = passes + 1
                /\ pc' = IF passes + 1 < MaxPasses THEN "loop" ELSE "done"
           ELSE /\ pc' = "done"
                /\ UNCHANGED <<heap, passes>>
    /\ UNCHANGED <<sudokuFrame, qc, corrected, violations, valid, bitstring,
                   decoded>>

\* return corrected
CorrectionReturn ==
    /\ fn = "classical_correction"
    /\ pc = "done"
    /\ pc' = "returned"
    /\ UNCHANGED <<sudokuFrame, qc, heap, corrected, passes, violations, valid,
                   bitstring, decoded>>

\* is_valid = verify_sudoku(grid)
VerifyCall ==
    /\ fn = "verify_sudoku"
    /\ pc = "call"
    /\ valid' = verify_sudoku(Deref(heap, grid))
    /\ pc' = "returned"
    /\ UNCHANGED <<sudokuFrame, qc, heap, corrected, passes, violations,
                   bitstring, decoded>>

\* violations = count_violations(grid)
CountCall ==
    /\ fn = "count_violations"
    /\ pc = "call"
    /\ violations' = count_violations(Deref(heap, grid))
    /\ pc' = "returned"
    /\ UNCHANGED <<sudokuFrame, qc, heap, corrected, passes, valid, bitstring,
                   decoded>>

Next ==
    \/ OracleCall
    \/ OracleApply
    \/ OracleApplyAgain
    \/ DiffusionCall
    \/ DiffusionApply
    \/ DiffusionApplyAgain
    \/ CalcCall
    \/ GroverInitS
    \/ GroverMakeOracle
    \/ GroverMakeDiffusion
    \/ GroverComposeOracle
    \/ GroverComposeDiffusion
    \/ GroverMeasure
    \/ RunCalcOptimal
    \/ RunSimulate
    \/ GroverMainRun
    \/ GroverMainVisualize
    \/ GroverMainFinish
    \/ AdvMainRun
    \/ AdvMainVisualize
    \/ AdvMainFinish
    \/ HelloMainRun
    \/ HelloMainVisualize
    \/ EncodeCall
    \/ MeasureEncoded
    \/ DecodeCall
    \/ CorrectionCopy
    \/ CorrectionPass
    \/ CorrectionReturn
    \/ VerifyCall
    \/ CountCall

Spec == Init /\ [][Next]_vars

TypeOK ==
    /\ fn \in Fns \cup Mains \cup SudokuFns
    /\ pc \in {"call", "returned", "raised", "applied", "applied2", "g_start",
               "g_oracle", "g_diffusion", "g_loop", "g_loop_diffusion",
               "r_start", "r_simulate", "m_start", "m_visualize", "m_explain",
               "encoded", "measured", "loop", "done"}
    /\ err \in {"", "CircuitError", "ZeroDivisionError", "ValueError",
                "Exception"}
    /\ passes \in 0..MaxPasses
    /\ rounds \in 0..(MaxCalcQubits + MaxQubits + MaxIter)

----------------------------------------------------------------------------
(* Properties                                                              *)

\* index of the basis state whose label is the bit string t: int(t, 2),
\* qubit q is the character at position Len(t) - q
IndexOf(t) ==
    LET n == Len(t)
        w == [q \in 0..(n - 1) |-> IF t[n - q] = "1" THEN Pow2(q) ELSE 0]
    IN  SumTo(w, n - 1)

\* the uniform superposition with the sign of t alone flipped
MarkedUniform(t) ==
    [amp |-> [i \in 0..(Pow2(Len(t)) - 1) |-> IF i = IndexOf(t) THEN -1 ELSE 1],
     hexp |-> Len(t)]

\* out = sign * (2 * mean(a) - a) as real vectors, a and out in [amp, hexp] form
ReflectsAboutMean(a, out, sign) ==
    LET N == Cardinality(DOMAIN a.amp)
        S == SumTo(a.amp, N - 1)
        d == out.hexp - a.hexp
        up == IF d > 0 THEN d \div 2 ELSE 0
        down == IF d < 0 THEN (-d) \div 2 ELSE 0
    IN  /\ d % 2 = 0
        /\ \A i \in DOMAIN a.amp :
              out.amp[i] * N * Pow2(down)
                  = sign * (2 * S - N * a.amp[i]) * Pow2(up)

Reverse(t) == [k \in 1..Len(t) |-> t[Len(t) + 1 - k]]

WellFormed == IsBinary(target_state) /\ Len(target_state) = n_qubits

\* C1: for every binary target, the oracle of create_oracle applied to the
\* uniform superposition flips the sign of exactly the basis state equal to
\* the target and of no other basis state (up to one global phase).  Stated
\* here for the targets of two or more bits, and with the target's
\* characters read in either qubit order.
C1_OracleFlipsExactlyTarget ==
    (/\ fn = "create_oracle"
     /\ IsBinary(target_state)
     /\ Len(target_state) >= 2
     /\ psi_in = Uniform(Len(target_state))
     /\ pc = "applied")
    => \/ UpToGlobalPhase(psi, MarkedUniform(target_state))
       \/ UpToGlobalPhase(psi, MarkedUniform(Reverse(target_state)))

\* C2: the circuit create_grovers_circuit(3, "101",
\* calculate_optimal_iterations(3)) gives outcome "101" a strictly higher
\* measurement probability than each of the other 7 outcomes.
C2_TargetIsPlurality ==
    (/\ fn = "run_grovers_algorithm"
     /\ pc = "returned"
     /\ n_qubits = 3
     /\ target_state = <<"1", "0", "1">>)
    => \A i \in DOMAIN psi.amp :
          i # IndexOf(target_state)
              => Abs(psi.amp[IndexOf(target_state)]) > Abs(psi.amp[i])

\* C3 (as claimed): the circuit of create_diffusion_operator(n) maps every
\* amplitude a_i to 2 * mean(a) - a_i.  Stated here for n >= 2.
C3_DiffusionReflects ==
    (fn = "create_diffusion_operator" /\ pc = "applied" /\ n_qubits >= 2)
    => ReflectsAboutMean(psi_in, psi, 1)

\* C3 (amended): the circuit of create_diffusion_operator(n) maps every
\* amplitude a_i to a_i - 2 * mean(a), the inversion about the mean times
\* the global phase -1.
C3_DiffusionReflectsNegated ==
    (fn = "create_diffusion_operator" /\ pc = "applied")
    => ReflectsAboutMean(psi_in, psi, -1)

C3_Witness ==
    /\ fn = "create_diffusion_operator"
    /\ pc = "applied"
    /\ n_qubits = 3
    /\ psi_in.amp = [i \in 0..7 |-> i]
    /\ psi.amp[0] # 0
    /\ psi # Neg(psi_in)

\* C4: for 1 <= M <= 2^n, calculate_optimal_iterations(n, M) returns the
\* non-negative integer k = floor((pi/4) * sqrt(2^n / M)), that is
\* 16 k^2 M <= pi^2 2^n < 16 (k+1)^2 M with 9.8696 < pi^2 < 9.8697;
\* it returns 1 for (2, 1) and 3 for (4, 1).
C4_OptimalIsFloor ==
    (/\ fn = "calculate_optimal_iterations"
     /\ pc \in {"returned", "raised"}
     /\ 1 <= num_solutions
     /\ num_solutions <= Pow2(n_qubits))
    => /\ pc = "returned"
       /\ optimal >= 0
       /\ 160000 * optimal * optimal * num_solutions
              <= 98696 * Pow2(n_qubits)
       /\ 160000 * (optimal + 1) * (optimal + 1) * num_solutions
              > 98697 * Pow2(n_qubits)
       /\ (n_qubits = 2 /\ num_solutions = 1) => optimal = 1
       /\ (n_qubits = 4 /\ num_solutions = 1) => optimal = 3

C4_Witness ==
    /\ fn = "calculate_optimal_iterations"
    /\ pc = "returned"
    /\ n_qubits = 4
    /\ num_solutions = 1
    /\ optimal = 3

\* C5: calculate_optimal_iterations(n, solution_count) fails with an error
\* and returns no iteration count whenever solution_count <= 0 or
\* solution_count > 2^n.
C5_RejectsInvalidSolutionCount ==
    (/\ fn = "calculate_optimal_iterations"
     /\ pc \in {"returned", "raised"}
     /\ (num_solutions <= 0 \/ num_solutions > Pow2(n_qubits)))
    => pc = "raised"

\* C6: create_grovers_circuit called with an iteration count that is 0 or
\* negative is rejected and produces no circuit.  Stated here for the
\* well-formed targets of two or more bits.
C6_RejectsNonPositiveIterations ==
    (/\ fn = "create_grovers_circuit"
     /\ WellFormed
     /\ n_qubits >= 2
     /\ iter_given
     /\ num_iterations <= 0)
    => pc # "returned"

\* C7: a target whose length differs from the qubit count or that contains a
\* character other than '0' or '1' is rejected before create_oracle or
\* create_grovers_circuit returns a circuit.  Stated here for the targets
\* of two or more characters.
C7_RejectsMalformedTarget ==
    (/\ fn \in {"create_oracle", "create_grovers_circuit"}
     /\ ~WellFormed
     /\ Len(target_state) >= 2
     /\ n_qubits >= 2)
    => pc \notin {"returned", "applied", "applied2"}

\* C8: for a well-formed target and k >= 1 iterations, the circuit returned
\* by create_grovers_circuit is, in order: one Hadamard on each of the n
\* qubits; k repetitions of the oracle's gates followed by the diffusion
\* operator's gates, every repetition identical; a measurement of qubit i
\* into classical bit i for every i; with no gate after a measurement.
C8_CircuitShape ==
    (/\ fn = "create_grovers_circuit"
     /\ pc = "returned"
     /\ WellFormed
     /\ num_iterations >= 1)
    => LET n == n_qubits
           k == num_iterations
           body == create_oracle(target_state).circ.ops
                   \o create_diffusion_operator(n).circ.ops
           L == Len(body)
           ops == qc.ops
       IN  /\ qc.nq = n
           /\ qc.nc = n
           /\ Len(ops) = n + k * L + n
           /\ \A p \in 1..n : ops[p] = H(p - 1)
           /\ \A r \in 0..(k - 1) : \A j \in 1..L :
                 ops[n + r * L + j] = body[j]
           /\ \A p \in 1..n : ops[n + k * L + p] = Measure(p - 1, p - 1)
           /\ \A p \in 1..Len(ops) : \A q \in (p + 1)..Len(ops) :
                 ops[p].name = "measure" => ops[q].name = "measure"

C8_Witness ==
    /\ fn = "create_grovers_circuit"
    /\ pc = "returned"
    /\ WellFormed
    /\ n_qubits = 3
    /\ num_iterations = 2
    /\ rounds = 2
    /\ target_state = <<"1", "0", "1">>

\* C9: when create_grovers_circuit is called without an explicit iteration
\* count, the number of oracle+diffusion rounds in the returned circuit
\* equals calculate_optimal_iterations(n_qubits).
C9_DefaultRoundsAreOptimal ==
    (/\ fn = "create_grovers_circuit"
     /\ pc = "returned"
     /\ WellFormed
     /\ ~iter_given)
    => rounds = calculate_optimal_iterations(n_qubits, DefaultSolutions).val

\* C10: the oracle of create_oracle(target) applied twice in succession
\* returns every basis-state amplitude of any input state to its original
\* value (identity up to global phase).
C10_OracleTwiceIsIdentity ==
    (fn = "create_oracle" /\ IsBinary(target_state) /\ pc = "applied2")
    => UpToGlobalPhase(psi, psi_in)

C10_Witness ==
    /\ fn = "create_oracle"
    /\ IsBinary(target_state)
    /\ pc = "applied2"
    /\ Len(target_state) = 3
    /\ ~UpToGlobalPhase(Statevector(oracle.ops, psi_in), psi_in)

\* C11: applying the circuit of create_diffusion_operator(n) twice in
\* succession to the uniform superposition returns the uniform
\* superposition (up to global phase).
C11_DiffusionTwiceOnUniform ==
    (/\ fn = "create_diffusion_operator"
     /\ pc = "applied2"
     /\ psi_in = Uniform(n_qubits))
    => UpToGlobalPhase(psi, Uniform(n_qubits))

C11_Witness ==
    /\ fn = "create_diffusion_operator"
    /\ pc = "applied2"
    /\ n_qubits = 3
    /\ psi_in = Uniform(3)
    /\ Statevector(diffusion.ops, psi_in) = Neg(psi_in)

\* a gate names only qubits and classical bits of an n-qubit, n-bit circuit
\* and never one qubit as both control and target
GateInRange(g, n) ==
    /\ g.tgt \in 0..(n - 1)
    /\ g.ctrl \subseteq 0..(n - 1)
    /\ g.clbits \subseteq 0..(n - 1)
    /\ g.tgt \notin g.ctrl

\* C13: for a well-formed target and iterations >= 1, every gate and
\* measurement of the circuit returned by create_grovers_circuit references
\* only qubits 0..n-1 and classical bits 0..n-1, and no gate names the same
\* qubit as both a control and its target.
C13_IndicesInRange ==
    (/\ fn = "create_grovers_circuit"
     /\ pc = "returned"
     /\ WellFormed
     /\ num_iterations >= 1)
    => \A p \in 1..Len(qc.ops) : GateInRange(qc.ops[p], n_qubits)

C13_Witness ==
    /\ fn = "create_grovers_circuit"
    /\ pc = "returned"
    /\ WellFormed
    /\ num_iterations >= 1
    /\ n_qubits = 3
    /\ \E p \in 1..Len(qc.ops) : qc.ops[p] = MCX({0, 1}, 2)
    /\ \E p \in 1..Len(qc.ops) : qc.ops[p] = Measure(2, 2)

\* the state s with the amplitude of the all-ones basis state negated
NegateAllOnes(s) ==
    LET last == Cardinality(DOMAIN s.amp) - 1
    IN  [s EXCEPT !.amp = [i \in DOMAIN s.amp |->
                              IF i = last THEN -s.amp[i] ELSE s.amp[i]]]

AllOnes(t) == \A k \in 1..Len(t) : t[k] = "1"

\* C14: for n >= 2 the conditional phase-flip step of create_oracle (its
\* whole circuit when the target is all ones) and the one of
\* create_diffusion_operator act identically on every basis state: both
\* negate the amplitude of the all-ones state and leave every other
\* amplitude unchanged.
C14_PhaseFlipsAgree ==
    (/\ fn = "create_oracle"
     /\ pc = "applied"
     /\ AllOnes(target_state)
     /\ Len(target_state) >= 2)
    => /\ psi = Statevector(DiffusionPhaseFlip(Len(target_state)), psi_in)
       /\ psi = NegateAllOnes(psi_in)

\* C12: in every script a failing visualization step is caught: the script
\* never ends with an unhandled exception, and a script that has ended has
\* gone through its remaining steps to its completion message
C12_VisualizationNeverAborts ==
    fn \in Mains =>
        /\ pc # "raised"
        /\ pc = "returned" => output[Len(output)] = "completed"

\* C15: for a grid with all cells in 1..4, decoding the measurement string of
\* the state prepared by encode_sudoku gives the same grid back
C15_EncodeDecodeInverse ==
    (fn = "encode_sudoku" /\ pc = "returned") => decoded = grid_in

\* C16: the grid returned by classical_correction has no more violations
\* than the grid it was given
C16_CorrectionNeverWorse ==
    (fn = "classical_correction" /\ pc = "returned")
        => count_violations(Deref(heap, corrected)) <= count_violations(grid_in)

\* C17: after any number of correction passes every fixed cell of the
\* corrected grid holds the value of the input grid, and the objects grid and
\* initial_grid are as they were at the call
C17_FixedCellsAndArgumentsKept ==
    (fn = "classical_correction" /\ pc \in {"loop", "done", "returned"})
        => /\ \A i \in 1..4, j \in 1..4 :
                initial_in[i][j] # 0
                    => Deref(heap, corrected)[i][j] = grid_in[i][j]
           /\ Deref(heap, grid) = grid_in
           /\ Deref(heap, initial_grid) = initial_in

\* a returned correction that rewrote a cell next to a fixed cell holding the
\* repeated value
C17_Witness ==
    /\ fn = "classical_correction"
    /\ pc = "returned"
    /\ initial_in = MainInitial
    /\ grid_in[1] = <<1, 1, 2, 4>>
    /\ Deref(heap, corrected)[1] = <<1, 3, 2, 4>>
    /\ passes >= 1

\* C18: for a grid with all cells in 1..4, verify_sudoku returns True exactly
\* when count_violations is 0
C18_VerifyIffNoViolations ==
    (fn = "verify_sudoku" /\ pc = "returned")
        => (valid <=> count_violations(grid_in) = 0)

\* verify_sudoku accepted the solved grid
C18_Witness ==
    /\ fn = "verify_sudoku"
    /\ pc = "returned"
    /\ grid_in = Solved
    /\ valid
    /\ count_violations(grid_in) = 0

\* every grid that count_violations was called on gives what the operator
\* gives
CountReturned ==
    (fn = "count_violations" /\ pc = "returned")
        => violations = count_violations(grid_in)

====
